---------------------------- MODULE Spec2Model ----------------------------
(***************************************************************************)
(* Model of MSUtils/ClassESW.py: class MSNoise.                            *)
(*                                                                         *)
(*   __init__          builds the channel-frequency axis from the          *)
(*                     spectral-window metadata (float32 array);           *)
(*   estimate_weights  fits a curve, samples it on the axis and returns    *)
(*                     (noise, 1/noise^2);                                 *)
(*   write_toms        writes a weight vector into the spectral and the    *)
(*                     scalar column of the store, chunk of rows by chunk. *)
(*                                                                         *)
(* Rows are numbered from 0 as in the code; channels and correlations are  *)
(* numbered from 1.  The store (pyrap table), numpy.polyfit and            *)
(* scipy.interpolate are libraries outside the repository: a store call    *)
(* either takes effect or raises, a fit either raises or yields one noise  *)
(* value per sampled frequency.                                            *)
(***************************************************************************)
EXTENDS Integers, Sequences, FiniteSets

VARIABLES
    pc,         \* position of the program
    spw,        \* msinfo['SPW']: sequence of [ref, bw, nc]
    freqs,      \* self.freqs
    nchan,      \* self.nchan
    nrows,      \* self.nrows
    ncor,       \* self.ncor
    curve,      \* estimate_weights: number of points of stats_data
    smooth,     \* estimate_weights: smooth
    noise,      \* estimate_weights: returned noise
    weights,    \* estimate_weights: returned weights
    data,       \* write_toms: data (one value per channel)
    stat,       \* write_toms: stat
    rowarg,     \* write_toms: the rowchunk argument, 0 for None
    rowchunk,   \* write_toms: rowchunk after line 182
    row0,       \* write_toms: loop variable
    mask,       \* write_toms: flags of the current chunk
    tab,        \* the table handle: "none", "open" or "closed"
    flagcol,    \* store: column FLAG
    spectral,   \* store: column columns[1] (WEIGHT_SPECTRUM)
    scalar,     \* store: column columns[0] (WEIGHT)
    log         \* history of the store calls that took effect

vars == <<pc, spw, freqs, nchan, nrows, ncor, curve, smooth, noise, weights,
          data, stat, rowarg, rowchunk, row0, mask, tab, flagcol, spectral,
          scalar, log>>

msvars == <<spw, freqs, nchan, nrows, ncor>>
estvars == <<curve, smooth, noise, weights>>
argvars == <<data, stat, rowarg>>

----------------------------------------------------------------------------
(* Bounds of the model. *)

MaxRows == 3          \* rows of the measurement set, write_toms
NChan == 2            \* channels, write_toms
NCor == 2             \* correlations, write_toms
MaxDefaultRows == 12  \* rows of the measurement set, default rowchunk
MaxNumChan == 3       \* NUM_CHAN of one spectral window, __init__
MaxSpw == 2           \* number of spectral windows, __init__
MaxPoints == 4        \* points of the sensitivity curve
MaxEstChan == 4       \* channels, estimate_weights

----------------------------------------------------------------------------
(* float32: numpy.array(freqs, dtype=numpy.float32), line 63. *)

MantissaBits == 24

RECURSIVE Exp2(_)
Exp2(n) == IF n = 0 THEN 1 ELSE 2 * Exp2(n - 1)

RECURSIVE FloorLog2(_)
FloorLog2(v) == IF v < 2 THEN 0 ELSE 1 + FloorLog2(v \div 2)

(* Spacing of the float32 values in the binade of v, for v >= 2^24. *)
Ulp32(v) == Exp2(FloorLog2(v) - (MantissaBits - 1))

(* The float32 nearest to the rational b + rem/den (0 <= rem < den,        *)
(* b >= 2^24), ties to even.                                               *)
F32(b, rem, den) ==
    LET g == Ulp32(b)
        lo == (b \div g) * g
        twice == 2 * ((b % g) * den + rem)
    IN  IF twice < g * den THEN lo
        ELSE IF twice > g * den THEN lo + g
        ELSE IF (lo \div g) % 2 = 0 THEN lo ELSE lo + g

----------------------------------------------------------------------------
(* MSNoise.__init__, lines 52-63. *)

(* freq0[spwid] + numpy.arange(nc)*dfreq with dfreq = bw[spwid]/nc, as a   *)
(* float32: channel i (from 0) of window w.                                *)
ChannelFreqFromOne(w, i) ==
    F32(w.ref + (((i + 1) * w.bw) \div w.nc), ((i + 1) * w.bw) % w.nc, w.nc)

ChannelFreq(w, i) ==
    F32(w.ref + ((i * w.bw) \div w.nc), (i * w.bw) % w.nc, w.nc)

WindowFreqs(w) == [j \in 1..w.nc |-> ChannelFreq(w, j - 1)]

RECURSIVE FreqAxis(_)
FreqAxis(s) ==
    IF s = <<>> THEN <<>> ELSE WindowFreqs(Head(s)) \o FreqAxis(Tail(s))

(* Inputs of __init__: msinfo['SPW'] as read from the measurement set.      *)
(* 950000040 is no float32 (the spacing there is 64); a bandwidth of 100   *)
(* gives channels narrower than that spacing.                              *)
RefFrequencies == {950000000, 950000040}
Bandwidths == {-100000000, 100, 100000000}

Windows == [ref : RefFrequencies, bw : Bandwidths, nc : 0..MaxNumChan]

RECURSIVE SeqsUpTo(_, _)
SeqsUpTo(S, n) ==
    IF n = 0 THEN {<<>>}
    ELSE LET shorter == SeqsUpTo(S, n - 1)
         IN  shorter \cup {Append(q, x) : q \in shorter, x \in S}

(* One window of n channels, 950 MHz, 100 MHz wide. *)
OneWindow(n) == <<[ref |-> 950000000, bw |-> 100000000, nc |-> n]>>

----------------------------------------------------------------------------
(* The store: the values a column holds before write_toms touches it.      *)
(* write_toms writes weights >= 1 and reductions with denominator >= 0, so *)
(* these mark a cell no putcol has reached.                                *)

OldSpectral == [c \in 1..nchan |-> [k \in 1..ncor |-> -1]]
OldScalar == [k \in 1..ncor |-> <<-1, 1>>]

Rows == 0..(nrows - 1)

SpectralColumn == "WEIGHT_SPECTRUM"   \* columns[1]
ScalarColumn == "WEIGHT"              \* columns[0]
FlagColumn == "FLAG"

----------------------------------------------------------------------------
(* MSNoise.write_toms, lines 180-202. *)

Min(a, b) == IF a < b THEN a ELSE b

(* Line 182: rowchunk = rowchunk or self.nrows/10 (integer division). *)
DefaultRowchunk(n) == n \div 10

EffectiveRowchunk(arg, n) == IF arg # 0 THEN arg ELSE DefaultRowchunk(n)

(* Line 184: nr = min(rowchunk, self.nrows-row0). *)
ChunkRowsOffByOne(chunk, n, r0) == Min(chunk, n - r0 - 1)

ChunkRows(chunk, n, r0) == Min(chunk, n - r0)

(* Line 183: the offset range(0, self.nrows, rowchunk) yields after r0. *)
NextOffset(r0, chunk) == r0 + chunk

(* Line 187: numpy.ones(dshape) * data[numpy.newaxis,:,numpy.newaxis]. *)
Broadcast(d, nr) ==
    [i \in 0..(nr - 1) |-> [c \in 1..nchan |-> [k \in 1..ncor |-> 1 * d[c]]]]

(* Line 189: tab.getcol('FLAG', row0, nr). *)
GetColFromStart(col, r0, nr) == [i \in 0..(nr - 1) |-> col[i]]

GetCol(col, r0, nr) == [i \in 0..(nr - 1) |-> col[r0 + i]]

(* Lines 193, 197, 199: tab.putcol(column, values, row0, nr). *)
PutColToEnd(col, values, r0, nr) ==
    [r \in DOMAIN col |->
        IF r >= r0 THEN values[Min(r - r0, nr - 1)] ELSE col[r]]

PutCol(col, values, r0, nr) ==
    [r \in DOMAIN col |->
        IF r \in r0..(r0 + nr - 1) THEN values[r - r0] ELSE col[r]]

RECURSIVE SumTo(_, _)
SumTo(f, n) == IF n = 0 THEN 0 ELSE f[n] + SumTo(f, n - 1)

(* ma.masked_array(__data, mask=flags): one row and correlation of the     *)
(* cube along the channel axis, masked entries filled with 0.              *)
Filled(cube, m, i, k) ==
    [c \in 1..nchan |-> IF m[i][c][k] THEN 0 ELSE cube[i][c][k]]

FilledSquares(cube, m, i, k) ==
    [c \in 1..nchan |-> IF m[i][c][k] THEN 0 ELSE cube[i][c][k] * cube[i][c][k]]

Unmasked(m, i, k) == [c \in 1..nchan |-> IF m[i][c][k] THEN 0 ELSE 1]

(* Line 199: mdata.sum(axis=1).data.  A value is a pair <<num, den>>. *)
MaskedSumIgnoringMask(cube, m) ==
    [i \in DOMAIN cube |-> [k \in 1..ncor |->
        <<SumTo([c \in 1..nchan |-> cube[i][c][k]], nchan), 1>>]]

MaskedSum(cube, m) ==
    [i \in DOMAIN cube |-> [k \in 1..ncor |->
        <<SumTo(Filled(cube, m, i, k), nchan), 1>>]]

(* Line 197: mdata.std(axis=1).data, as the variance over the unmasked     *)
(* channels: (cnt*sum(x^2) - sum(x)^2) / cnt^2, the pair <<num, den>>; the *)
(* standard deviation is its square root.                                  *)
MaskedStd(cube, m) ==
    [i \in DOMAIN cube |-> [k \in 1..ncor |->
        LET cnt == SumTo(Unmasked(m, i, k), nchan)
            s1 == SumTo(Filled(cube, m, i, k), nchan)
            s2 == SumTo(FilledSquares(cube, m, i, k), nchan)
        IN  <<cnt * s2 - s1 * s1, cnt * cnt>>]]

(* Lines 196-199. *)
Reduce(st, cube, m) ==
    IF st = "stddev" THEN MaskedStd(cube, m) ELSE MaskedSum(cube, m)

(* The order of the statements of the loop body, lines 189-199. *)
StepAfterScalarFirst(step) ==
    CASE step = "getcol" -> "putscalar"
      [] step = "putscalar" -> "putspectral"
      [] step = "putspectral" -> "endchunk"

StepAfter(step) ==
    CASE step = "getcol" -> "putspectral"
      [] step = "putspectral" -> "putscalar"
      [] step = "putscalar" -> "endchunk"

LogEntry(op, col, r0, nr) == [op |-> op, col |-> col, row0 |-> r0, nr |-> nr]

nrNow == ChunkRows(rowchunk, nrows, row0)

(* After a statement of the loop body: the next statement, or the next     *)
(* iteration of line 183, or line 202.                                     *)
Advance(step) ==
    LET nxt == StepAfter(step) IN
    IF nxt # "endchunk" THEN pc' = nxt /\ row0' = row0
    ELSE /\ row0' = NextOffset(row0, rowchunk)
         /\ pc' = IF row0' < nrows THEN "getcol" ELSE "close"

(* Lines 170-183 with an integer rowchunk: the columns exist (addcol), the *)
(* table is opened, the loop starts.                                       *)
WriteTomsBegin ==
    /\ pc = "ready"
    /\ EffectiveRowchunk(rowarg, nrows) > 0
    /\ tab' = "open"
    /\ rowchunk' = EffectiveRowchunk(rowarg, nrows)
    /\ row0' = 0
    /\ pc' = IF 0 < nrows THEN "getcol" ELSE "close"
    /\ UNCHANGED <<msvars, estvars, argvars, mask, flagcol, spectral, scalar, log>>

(* Line 183: range() with step 0 raises ValueError. *)
WriteTomsZeroStep ==
    /\ pc = "ready"
    /\ EffectiveRowchunk(rowarg, nrows) = 0
    /\ tab' = "open"
    /\ rowchunk' = 0
    /\ pc' = "raised"
    /\ UNCHANGED <<msvars, estvars, argvars, row0, mask, flagcol, spectral, scalar, log>>

(* Line 182 under true division: self.nrows/10 is a float and range() of   *)
(* line 183 raises TypeError.                                              *)
WriteTomsFloatStep ==
    /\ pc = "ready"
    /\ rowarg = 0
    /\ tab' = "open"
    /\ pc' = "raised"
    /\ UNCHANGED <<msvars, estvars, argvars, rowchunk, row0, mask, flagcol, spectral, scalar, log>>

(* Line 189. *)
GetFlags ==
    /\ pc = "getcol"
    /\ mask' = GetCol(flagcol, row0, nrNow)
    /\ log' = Append(log, LogEntry("getcol", FlagColumn, row0, nrNow))
    /\ Advance("getcol")
    /\ UNCHANGED <<msvars, estvars, argvars, rowchunk, tab, flagcol, spectral, scalar>>

(* Line 193. *)
PutSpectral ==
    /\ pc = "putspectral"
    /\ spectral' = PutCol(spectral, Broadcast(data, nrNow), row0, nrNow)
    /\ log' = Append(log, LogEntry("putcol", SpectralColumn, row0, nrNow))
    /\ Advance("putspectral")
    /\ UNCHANGED <<msvars, estvars, argvars, rowchunk, mask, tab, flagcol, scalar>>

(* Lines 196-199. *)
PutScalar ==
    /\ pc = "putscalar"
    /\ scalar' = PutCol(scalar, Reduce(stat, Broadcast(data, nrNow), mask), row0, nrNow)
    /\ log' = Append(log, LogEntry("putcol", ScalarColumn, row0, nrNow))
    /\ Advance("putscalar")
    /\ UNCHANGED <<msvars, estvars, argvars, rowchunk, mask, tab, flagcol, spectral>>

(* A getcol or putcol of the chunk raises: the exception leaves write_toms *)
(* (no try), line 202 is not reached.                                      *)
StoreCallRaises ==
    /\ pc \in {"getcol", "putspectral", "putscalar"}
    /\ pc' = "raised"
    /\ UNCHANGED <<msvars, estvars, argvars, rowchunk, row0, mask, tab, flagcol,
                   spectral, scalar, log>>

(* Line 202. *)
Close ==
    /\ pc = "close"
    /\ tab' = "closed"
    /\ pc' = "done"
    /\ UNCHANGED <<msvars, estvars, argvars, rowchunk, row0, mask, flagcol,
                   spectral, scalar, log>>

NextWrite ==
    \/ WriteTomsBegin
    \/ WriteTomsZeroStep
    \/ WriteTomsFloatStep
    \/ GetFlags
    \/ PutSpectral
    \/ PutScalar
    \/ StoreCallRaises
    \/ Close

----------------------------------------------------------------------------
(* Inputs of write_toms. *)

FlagRowChoices(nch, nco) ==
    { [c \in 1..nch |-> [k \in 1..nco |-> FALSE]],
      [c \in 1..nch |-> [k \in 1..nco |-> TRUE]],
      [c \in 1..nch |-> [k \in 1..nco |-> c = 1]],
      [c \in 1..nch |-> [k \in 1..nco |-> c = nch /\ k = 1]] }

(* Weight vectors: all channels alike, ascending, descending. *)
WeightVectors(nch) ==
    { [c \in 1..nch |-> 1],
      [c \in 1..nch |-> c],
      [c \in 1..nch |-> nch + 1 - c] }

NoEstimate ==
    /\ curve = 0
    /\ smooth = "polyn"
    /\ noise = <<>>
    /\ weights = <<>>

(* The state after construction, with the arguments of one call of         *)
(* write_toms.                                                             *)
WriteInit(rowset, argset) ==
    /\ pc = "ready"
    /\ nchan = NChan
    /\ spw = OneWindow(nchan)
    /\ freqs = FreqAxis(spw)
    /\ nrows \in rowset
    /\ ncor = NCor
    /\ NoEstimate
    /\ data \in WeightVectors(nchan)
    /\ stat \in {"sum", "stddev"}
    /\ rowarg \in argset
    /\ rowchunk = 0
    /\ row0 = 0
    /\ mask = <<>>
    /\ tab = "none"
    /\ spectral = [r \in Rows |-> OldSpectral]
    /\ scalar = [r \in Rows |-> OldScalar]
    /\ log = <<>>

Init ==
    /\ WriteInit(1..MaxRows, 0..(MaxRows + 1))
    /\ flagcol \in [Rows -> FlagRowChoices(nchan, ncor)]

Spec == Init /\ [][NextWrite]_vars

(* Calls that leave rowchunk to its default, on larger measurement sets    *)
(* whose rows are all flagged alike.                                       *)
InitDefault ==
    /\ WriteInit(1..MaxDefaultRows, {0})
    /\ \E f \in FlagRowChoices(nchan, ncor) : flagcol = [r \in Rows |-> f]

SpecDefault == InitDefault /\ [][NextWrite]_vars

----------------------------------------------------------------------------
(* MSNoise.__init__ as one step, from the metadata of the measurement set. *)

NoWrite ==
    /\ data = <<>>
    /\ stat = "sum"
    /\ rowarg = 0
    /\ rowchunk = 0
    /\ row0 = 0
    /\ mask = <<>>
    /\ tab = "none"
    /\ flagcol = <<>>
    /\ spectral = <<>>
    /\ scalar = <<>>
    /\ log = <<>>

writevars == <<data, stat, rowarg, rowchunk, row0, mask, tab, flagcol, spectral,
               scalar, log>>

MSNoiseInit ==
    /\ pc = "new"
    /\ freqs' = FreqAxis(spw)
    /\ nchan' = Len(freqs')
    /\ pc' = "ready"
    /\ UNCHANGED <<spw, nrows, ncor, estvars, writevars>>

InitNew ==
    /\ pc = "new"
    /\ spw \in SeqsUpTo(Windows, MaxSpw)
    /\ freqs = <<>>
    /\ nchan = 0
    /\ nrows = 1
    /\ ncor = 1
    /\ NoEstimate
    /\ NoWrite

SpecFreq == InitNew /\ [][MSNoiseInit]_vars

----------------------------------------------------------------------------
(* MSNoise.estimate_weights, lines 98-151 (mode 'specs', an inline curve). *)

(* Values a fitted curve takes at a channel; normalise and fit_order       *)
(* change these values only.                                               *)
NoiseValues == {-1, 0, 1, 2}

(* Lines 119-125: the fit sampled at freqs, one value per element of the   *)
(* array it is evaluated on.                                               *)
NoiseSamplesAtCurve(axis, npoints) == [1..npoints -> NoiseValues]

NoiseSamples(axis, npoints) == [1..Len(axis) -> NoiseValues]

(* Line 127: 1.0/noise**2 on an array, the pair <<1, noise^2>>; IEEE       *)
(* division gives +inf, the pair <<1, 0>>, where noise is 0.               *)
WeightsOf(nz) == [c \in DOMAIN nz |-> <<1, nz[c] * nz[c]>>]

(* splrep fits a cubic spline (k=3) and needs more than k points;          *)
(* polyfit accepts any curve.                                              *)
SplineOrder == 3

FitSucceeds(sm, npoints) == sm = "polyn" \/ (sm = "spline" /\ npoints > SplineOrder)

(* Lines 118-151 with a selector one of the branches takes. *)
EstimateReturns ==
    /\ pc = "ready"
    /\ FitSucceeds(smooth, curve)
    /\ \E nz \in NoiseSamples(freqs, curve) :
          /\ noise' = nz
          /\ weights' = WeightsOf(nz)
    /\ pc' = "returned"
    /\ UNCHANGED <<msvars, curve, smooth, writevars>>

(* Line 123: splrep raises on a curve of at most k points. *)
EstimateFitRaises ==
    /\ pc = "ready"
    /\ smooth = "spline"
    /\ ~FitSucceeds(smooth, curve)
    /\ pc' = "raised"
    /\ UNCHANGED <<msvars, estvars, writevars>>

(* Lines 118-127: neither branch assigns noise, line 127 raises            *)
(* UnboundLocalError.                                                      *)
EstimateUnbound ==
    /\ pc = "ready"
    /\ smooth \notin {"polyn", "spline"}
    /\ pc' = "raised"
    /\ UNCHANGED <<msvars, estvars, writevars>>

NextEst ==
    \/ EstimateReturns
    \/ EstimateFitRaises
    \/ EstimateUnbound

InitEst ==
    /\ pc = "ready"
    /\ nchan \in 1..MaxEstChan
    /\ spw = OneWindow(nchan)
    /\ freqs = FreqAxis(spw)
    /\ nrows = 1
    /\ ncor = 1
    /\ curve \in 2..MaxPoints
    /\ smooth \in {"polyn", "spline", "polynomial"}
    /\ noise = <<>>
    /\ weights = <<>>
    /\ NoWrite

SpecEst == InitEst /\ [][NextEst]_vars

----------------------------------------------------------------------------
(* Properties of write_toms. *)

IsPut(e, col) == e.op = "putcol" /\ e.col = col
IsSpectralPut(e) == IsPut(e, SpectralColumn)
IsScalarPut(e) == IsPut(e, ScalarColumn)
IsFlagGet(e) == e.op = "getcol" /\ e.col = FlagColumn

Covers(e, r) == e.row0 <= r /\ r < e.row0 + e.nr

(* How many putcol calls on column col wrote row r. *)
Writes(col, r) ==
    Cardinality({j \in 1..Len(log) : IsPut(log[j], col) /\ Covers(log[j], r)})

Ended == pc \in {"done", "raised"}

(* The i-th chunk (from 1) of a run with chunk size k starts at (i-1)*k    *)
(* and has k rows, or the rows that remain.                                *)
IsChunk(e, i, k) ==
    /\ e.row0 = (i - 1) * k
    /\ e.row0 < nrows
    /\ e.nr = (IF i * k <= nrows THEN k ELSE nrows - (i - 1) * k)

ChunksInOrder(calls, k) == \A i \in 1..Len(calls) : IsChunk(calls[i], i, k)

(* C1: with an explicit rowchunk k >= 1, the chunks are written at the     *)
(* offsets 0, k, 2k, ... in this order, each of k rows except a shorter    *)
(* last one, no row outside 0..nrows-1 is written, and after the run every *)
(* row has been written exactly once to each of the two columns.           *)
C1_ChunksCoverRowsOnce ==
    rowarg >= 1 =>
        /\ ChunksInOrder(SelectSeq(log, IsSpectralPut), rowarg)
        /\ ChunksInOrder(SelectSeq(log, IsScalarPut), rowarg)
        /\ \A j \in 1..Len(log) : log[j].row0 >= 0 /\ log[j].row0 + log[j].nr <= nrows
        /\ pc = "done" =>
              \A r \in Rows : Writes(SpectralColumn, r) = 1 /\ Writes(ScalarColumn, r) = 1

C1_Witness ==
    /\ pc = "done"
    /\ nrows = 3
    /\ rowarg = 2
    /\ Len(SelectSeq(log, IsScalarPut)) = 2

(* The columns after a run that writes all rows as one chunk               *)
(* (rowchunk = nrows: the only offset is 0 and nr = nrows).                *)
OneChunkSpectral ==
    PutCol([r \in Rows |-> OldSpectral], Broadcast(data, nrows), 0, nrows)

OneChunkScalar ==
    PutCol([r \in Rows |-> OldScalar],
           Reduce(stat, Broadcast(data, nrows), GetCol(flagcol, 0, nrows)), 0, nrows)

(* C2: after a run with a chunk size k that divides the row count, both    *)
(* columns hold, in every row, channel and correlation, what a run with    *)
(* chunk size = row count leaves.                                          *)
C2_ChunkedEqualsOneChunk ==
    (pc = "done" /\ rowarg >= 1 /\ nrows % rowarg = 0) =>
        /\ spectral = OneChunkSpectral
        /\ scalar = OneChunkScalar

C2_Witness ==
    /\ pc = "done"
    /\ nrows = 3
    /\ rowarg = 1
    /\ flagcol[0] # flagcol[1]
    /\ flagcol[1] # flagcol[2]

(* C3: no run of write_toms ends with the handle still open, whether every *)
(* chunk succeeds or a store call of some chunk raises (runs with an       *)
(* explicit rowchunk).                                                     *)
C3_HandleClosedAtEnd == (Ended /\ rowarg >= 1) => tab = "closed"

(* What write_toms writes into row r. *)
RowSpectral(r) == Broadcast(data, 1)[0]
RowScalar(r) == Reduce(stat, Broadcast(data, 1), GetCol(flagcol, r, 1))[0]

(* C4: when the run is aborted in the chunk at offset row0, the rows of    *)
(* the chunks before it hold the values written, once, and the rows of the *)
(* chunks after it have not been written in either column.                 *)
C4_AbortKeepsEarlierLeavesLater ==
    pc = "raised" =>
        \A r \in Rows :
            /\ r < row0 =>
                  /\ spectral[r] = RowSpectral(r)
                  /\ scalar[r] = RowScalar(r)
                  /\ Writes(SpectralColumn, r) = 1
                  /\ Writes(ScalarColumn, r) = 1
            /\ r >= row0 + rowchunk =>
                  /\ spectral[r] = OldSpectral
                  /\ scalar[r] = OldScalar
                  /\ Writes(SpectralColumn, r) = 0
                  /\ Writes(ScalarColumn, r) = 0

C4_Witness ==
    /\ pc = "raised"
    /\ nrows = 3
    /\ rowchunk = 1
    /\ row0 = 1
    /\ Writes(SpectralColumn, 1) = 1

SameRows(e, f) == e.row0 = f.row0 /\ e.nr = f.nr

(* C5: every write of the spectral column directly follows a read of the   *)
(* flags of the same rows, and every write of the scalar column directly   *)
(* follows the write of the spectral column for the same rows; the rows    *)
(* read are those of the chunks, in order.                                 *)
C5_FlagsThenSpectralThenScalar ==
    /\ ChunksInOrder(SelectSeq(log, IsFlagGet), rowchunk)
    /\ \A j \in 1..Len(log) :
          /\ IsSpectralPut(log[j]) =>
                j >= 2 /\ IsFlagGet(log[j - 1]) /\ SameRows(log[j - 1], log[j])
          /\ IsScalarPut(log[j]) =>
                j >= 3 /\ IsSpectralPut(log[j - 1]) /\ SameRows(log[j - 1], log[j])

C5_Witness ==
    /\ stat = "stddev"
    /\ Len(log) = 6
    /\ IsScalarPut(log[6])
    /\ log[6].row0 = 2

(* A getcol or putcol of a chunk raised (the loop had started). *)
StoreCallFailed == pc = "raised" /\ rowchunk > 0

(* C6: a run that leaves rowchunk to its default, and in which no store    *)
(* call raises, ends having written every row of both columns, whatever    *)
(* the row count.                                                          *)
C6_DefaultChunkWritesAllRows ==
    (Ended /\ rowarg = 0 /\ ~StoreCallFailed) =>
        /\ pc = "done"
        /\ \A r \in Rows : Writes(SpectralColumn, r) = 1 /\ Writes(ScalarColumn, r) = 1

RECURSIVE SumOver(_, _)
SumOver(S, f) ==
    IF S = {} THEN 0
    ELSE LET c == CHOOSE x \in S : TRUE IN f[c] + SumOver(S \ {c}, f)

Unflagged(r, k) == {c \in 1..nchan : ~flagcol[r][c][k]}

(* C8: a written row of the spectral column holds the weight vector in     *)
(* every correlation whatever the flags; with stat = sum a written row of  *)
(* the scalar column holds, per correlation, the sum of the weights of     *)
(* the channels whose flag is false, which is 0 where all are flagged.     *)
C8_SpectralUnmaskedScalarMaskedSum ==
    \A r \in Rows :
        /\ Writes(SpectralColumn, r) >= 1 =>
              \A c \in 1..nchan : \A k \in 1..ncor : spectral[r][c][k] = data[c]
        /\ (Writes(ScalarColumn, r) >= 1 /\ stat = "sum") =>
              \A k \in 1..ncor :
                  /\ scalar[r][k] = <<SumOver(Unflagged(r, k), data), 1>>
                  /\ Unflagged(r, k) = {} => scalar[r][k] = <<0, 1>>

C8_Witness ==
    /\ pc = "done"
    /\ stat = "sum"
    /\ nchan = 2
    /\ \E r \in Rows : Unflagged(r, 1) = {}
    /\ \E r \in Rows : Unflagged(r, 1) = {2}
    /\ \E r \in Rows : spectral[r][1][1] = 2 /\ flagcol[r][1][1]

----------------------------------------------------------------------------
(* Properties of __init__. *)

RECURSIVE TotalChannels(_)
TotalChannels(s) == IF s = <<>> THEN 0 ELSE Head(s).nc + TotalChannels(Tail(s))

(* Entry of the axis for channel i (from 0) of window w (from 1). *)
AxisEntry(w, i) == freqs[TotalChannels(SubSeq(spw, 1, w - 1)) + i + 1]

Abs(x) == IF x < 0 THEN -x ELSE x

(* v is a float32 nearest to ref + i*bw/nc. *)
NearestFloat32(v, win, i) ==
    /\ v % Ulp32(v) = 0
    /\ 2 * Abs((v - win.ref) * win.nc - i * win.bw) <= Ulp32(v) * win.nc

(* C7 as amended: the axis has as many entries as the windows declare      *)
(* channels, lists the windows in declaration order without gaps, holds    *)
(* for channel i of a window the float32 nearest to                        *)
(* ref_frequency + i*bandwidth/num_channels, never decreases within a      *)
(* window of bandwidth >= 0 and increases strictly within a window whose   *)
(* channel step exceeds the float32 spacing.                               *)
C7_AxisConcatenatesWindows ==
    pc = "ready" =>
        /\ Len(freqs) = TotalChannels(spw)
        /\ nchan = TotalChannels(spw)
        /\ \A w \in 1..Len(spw) :
              /\ \A i \in 0..(spw[w].nc - 1) :
                    NearestFloat32(AxisEntry(w, i), spw[w], i)
              /\ \A i \in 0..(spw[w].nc - 2) :
                    /\ spw[w].bw >= 0 => AxisEntry(w, i) <= AxisEntry(w, i + 1)
                    /\ spw[w].bw > Ulp32(AxisEntry(w, i + 1)) * spw[w].nc =>
                          AxisEntry(w, i) < AxisEntry(w, i + 1)

C7_Witness ==
    /\ pc = "ready"
    /\ Len(spw) = 2
    /\ spw[1] = [ref |-> 950000040, bw |-> 100000000, nc |-> 3]
    /\ spw[2] = [ref |-> 950000000, bw |-> 100, nc |-> 3]
    /\ freqs[1] > freqs[4]
    /\ freqs[5] = freqs[6]

(* C7 as stated: every window starts at its reference frequency, steps by  *)
(* bandwidth/num_channels and increases, for all metadata.                 *)
C7_AxisExactAndIncreasing ==
    pc = "ready" =>
        /\ Len(freqs) = TotalChannels(spw)
        /\ \A w \in 1..Len(spw) :
              /\ \A i \in 0..(spw[w].nc - 1) :
                    (AxisEntry(w, i) - spw[w].ref) * spw[w].nc = i * spw[w].bw
              /\ \A i \in 0..(spw[w].nc - 2) : AxisEntry(w, i) < AxisEntry(w, i + 1)

----------------------------------------------------------------------------
(* Properties of estimate_weights. *)

EstimateEnded == pc \in {"returned", "raised"}

OnePerChannel ==
    /\ pc = "returned"
    /\ Len(noise) = Len(freqs)
    /\ Len(weights) = Len(freqs)

(* C9 as amended: with the selector 'polyn', or 'spline' and a curve of at *)
(* least 4 points, estimate_weights returns noise and weights with one     *)
(* entry per channel of the frequency axis; with 'polynomial' it raises.   *)
C9_ReturnsOnePerChannel ==
    EstimateEnded =>
        /\ (smooth = "polyn" \/ (smooth = "spline" /\ curve >= 4)) => OnePerChannel
        /\ smooth = "polynomial" => pc = "raised"

(* The end-to-end scenario with the selector 'polyn': a 3-point curve, one *)
(* window of 4 channels.                                                   *)
C9_Witness ==
    /\ pc = "returned"
    /\ curve = 3
    /\ smooth = "polyn"
    /\ spw = OneWindow(4)
    /\ Len(noise) = 4
    /\ Len(weights) = 4

(* C9 as stated: with the selector 'polynomial' or 'spline' and a valid    *)
(* curve estimate_weights returns one entry per channel.                   *)
C9_PolynomialOrSplineReturns ==
    (EstimateEnded /\ smooth \in {"polynomial", "spline"}) => OnePerChannel

(* C10: estimate_weights returns no weight vector when the fitted noise is *)
(* zero at some channel, and never an infinite weight.                     *)
C10_ZeroNoiseRejected ==
    pc = "returned" =>
        \A c \in 1..Len(noise) : noise[c] # 0 /\ weights[c][2] # 0

=============================================================================
